---------------------------- MODULE Spec2Model ----------------------------
(***************************************************************************)
(* A model of libsolv's AppData parser, ext/repo_appdata.c: the expat      *)
(* callbacks startElement / endElement / characterData working on a        *)
(* struct parsedata, the text helpers wsstrip and indent, the dependency   *)
(* synthesis at the close of an application element, and the driver        *)
(* repo_add_appdata_fn.                                                    *)
(*                                                                         *)
(* C strings are sequences of one-character strings.  A char* that may be  *)
(* null is NULL (the empty tuple) or Some(s) (the one-element tuple        *)
(* holding the string s), so that the null pointer and the empty string    *)
(* differ.  The struct parsedata is one record.  The content buffer is     *)
(* modelled byte by byte, with its terminator, the stale bytes behind the  *)
(* terminator and the bytes never written since malloc.                    *)
(***************************************************************************)
EXTENDS Integers, Sequences, FiniteSets, TLC

VARIABLES
  pd,           \* struct parsedata (depth, state, statedepth, content, ...)
  solvables,    \* the records of the repo (pool->solvables), by handle
  deskentries,  \* the desktop file /usr/share/applications/<id>, if any
  ret, phase,   \* repo_add_appdata_fn: its result and where it stands
  open,         \* the tokenizer's stack of open elements
  nstart,       \* the number of start tags the tokenizer has delivered
  family,       \* the vocabulary the document is drawn from
  last,         \* the last event delivered, and pd, solvables and open
                \* as they were before it
  batch         \* repo_add_appdata_dir: the directory, the file lists, the
                \* queues, and the errors handed to pool_error

vars == << pd, solvables, deskentries, ret, phase, open, nstart, family,
           last, batch >>

----------------------------------------------------------------------------
(* Bounds of the model.                                                    *)

\* the deepest nesting of elements in a document
MaxDepth == 4
\* the longest list of items of the long ordered list document
MaxItems == 11
\* how many bytes never written since malloc a string read may run over
MaxGarbage == 1

----------------------------------------------------------------------------
(* Pointers and strings.                                                   *)

NULL == << >>
Some(s) == << s >>
Val(p) == p[1]

\* the terminating byte of a C string, and a byte never written since malloc
NUL == "NUL"
UNINIT == "UNINIT"
\* what a byte never written may turn out to hold, if it is not zero
GARBAGE == "?"

RECURSIVE Concat(_)
Concat(ss) == IF ss = << >> THEN << >> ELSE Head(ss) \o Concat(Tail(ss))

\* pool_tmpjoin(pool, a, b, c): the three strings joined
pool_tmpjoin(a, b, c) == a \o b \o c

\* strcmp(suffix, id + l - n) == 0, for n = strlen(suffix) <= l
EndsWith(id, suffix) ==
  /\ Len(id) >= Len(suffix)
  /\ SubSeq(id, Len(id) - Len(suffix) + 1, Len(id)) = suffix

STR_application_colon == <<"a","p","p","l","i","c","a","t","i","o","n",":">>
STR_application_appdata == <<"a","p","p","l","i","c","a","t","i","o","n","-",
                             "a","p","p","d","a","t","a","(">>
STR_rparen == <<")">>
STR_desktop == <<".","d","e","s","k","t","o","p">>
STR_ttf == <<".","t","t","f">>
STR_otf == <<".","o","t","f">>
STR_xml == <<".","x","m","l">>
STR_db == <<".","d","b">>
STR_appdata_xml == <<".","a","p","p","d","a","t","a",".","x","m","l">>
STR_metainfo_xml == <<".","m","e","t","a","i","n","f","o",".","x","m","l">>
STR_nl == <<"\n">>
STR_nlnl == <<"\n","\n">>
STR_type_desktop == <<"d","e","s","k","t","o","p">>

----------------------------------------------------------------------------
(* The state table.                                                        *)

Sw(f, e, t, d) == [from |-> f, ename |-> e, to |-> t, docontent |-> d]

\* static struct stateswitch stateswitches[], with its terminating entry
stateswitches == <<
  Sw("STATE_START",       "applications",    "STATE_START",       0),
  Sw("STATE_START",       "components",      "STATE_START",       0),
  Sw("STATE_START",       "application",     "STATE_APPLICATION", 0),
  Sw("STATE_START",       "component",       "STATE_APPLICATION", 0),
  Sw("STATE_APPLICATION", "id",              "STATE_ID",          1),
  Sw("STATE_APPLICATION", "pkgname",         "STATE_PKGNAME",     1),
  Sw("STATE_APPLICATION", "product_license", "STATE_LICENCE",     1),
  Sw("STATE_APPLICATION", "name",            "STATE_NAME",        1),
  Sw("STATE_APPLICATION", "summary",         "STATE_SUMMARY",     1),
  Sw("STATE_APPLICATION", "description",     "STATE_DESCRIPTION", 0),
  Sw("STATE_APPLICATION", "url",             "STATE_URL",         1),
  Sw("STATE_APPLICATION", "project_group",   "STATE_GROUP",       1),
  Sw("STATE_APPLICATION", "keywords",        "STATE_KEYWORDS",    0),
  Sw("STATE_APPLICATION", "extends",         "STATE_EXTENDS",     1),
  Sw("STATE_DESCRIPTION", "p",               "STATE_P",           1),
  Sw("STATE_DESCRIPTION", "ul",              "STATE_UL",          0),
  Sw("STATE_DESCRIPTION", "ol",              "STATE_OL",          0),
  Sw("STATE_UL",          "li",              "STATE_UL_LI",       1),
  Sw("STATE_OL",          "li",              "STATE_OL_LI",       1),
  Sw("STATE_KEYWORDS",    "keyword",         "STATE_KEYWORD",     1),
  Sw("NUMSTATES",         "",                "STATE_START",       0) >>

\* enum state, without NUMSTATES
States == { "STATE_START", "STATE_APPLICATION", "STATE_ID", "STATE_PKGNAME",
            "STATE_LICENCE", "STATE_NAME", "STATE_SUMMARY",
            "STATE_DESCRIPTION", "STATE_P", "STATE_UL", "STATE_UL_LI",
            "STATE_OL", "STATE_OL_LI", "STATE_URL", "STATE_GROUP",
            "STATE_KEYWORDS", "STATE_KEYWORD", "STATE_EXTENDS" }

\* the entries before the terminating one, as the loop of
\* repo_add_appdata_fn walks them
SwIndexes == { i \in 1..Len(stateswitches) : 
                 \A k \in 1..i : stateswitches[k].from # "NUMSTATES" }

\* pd.swtab[s]: the index of the first entry from s, 0 (a null pointer)
\* when there is none
swtab(s) ==
  LET is == { i \in SwIndexes : stateswitches[i].from = s }
  IN  IF is = {} THEN 0 ELSE CHOOSE i \in is : \A k \in is : i <= k

\* a parent table in which every state is its own parent
sbtab_Self(s) == s

\* pd.sbtab[s]: the from of the last entry that leads to s; the memset
\* leaves 0, which is STATE_START, where no entry leads to s
sbtab(s) ==
  LET is == { i \in SwIndexes : stateswitches[i].to = s }
  IN  IF is = {} THEN "STATE_START"
      ELSE stateswitches[CHOOSE i \in is : \A k \in is : i >= k].from

\* the loop of startElement over the entries from s: the index of the first
\* one named name, or of the entry the loop stops at
RECURSIVE FindSwitch(_, _, _)
FindSwitch(i, s, name) ==
  IF stateswitches[i].from # s THEN i
  ELSE IF stateswitches[i].ename = name THEN i
  ELSE FindSwitch(i + 1, s, name)

\* find_attr(txt, atts): atts is a sequence of <<name, value>> pairs
RECURSIVE find_attr(_, _)
find_attr(txt, atts) ==
  IF atts = << >> THEN NULL
  ELSE IF Head(atts)[1] = txt THEN Some(Head(atts)[2])
  ELSE find_attr(txt, Tail(atts))

----------------------------------------------------------------------------
(* The content buffer.  content is the sequence of the bytes up to the     *)
(* last one ever written; C's content[i] is content[i + 1] here.           *)

BufGet(buf, i) == IF i < Len(buf) THEN buf[i + 1] ELSE UNINIT

BufPut(buf, i, c) ==
  [ k \in 1..(IF i + 1 > Len(buf) THEN i + 1 ELSE Len(buf)) |->
      IF k = i + 1 THEN c ELSE IF k <= Len(buf) THEN buf[k] ELSE UNINIT ]

\* the bytes of s written from position i on
RECURSIVE BufWrite(_, _, _)
BufWrite(buf, i, s) ==
  IF s = << >> THEN buf ELSE BufWrite(BufPut(buf, i, Head(s)), i + 1, Tail(s))

\* strlen and friends read bytes up to the first NUL.  A byte never written
\* holds anything: the read ends there, or takes it for a character and
\* goes on.  The set of the strings such a read can see from position i.
RECURSIVE ReadFrom(_, _, _)
ReadFrom(buf, i, g) ==
  LET c == BufGet(buf, i) IN
  IF c = NUL THEN { << >> }
  ELSE IF c = UNINIT
    THEN { << >> } \cup
         (IF g < MaxGarbage
            THEN { << GARBAGE >> \o r : r \in ReadFrom(buf, i + 1, g + 1) }
            ELSE { })
  ELSE { << c >> \o r : r \in ReadFrom(buf, i + 1, g) }

CStrings(buf) == ReadFrom(buf, 0, 0)

\* the buffer holds a terminated string of length n, all of it written
IsCString(buf, n) ==
  /\ n < Len(buf)
  /\ buf[n + 1] = NUL
  /\ \A k \in 1..n : buf[k] \notin { NUL, UNINIT }

IsSpace(c) == c = " " \/ c = "\t" \/ c = "\n"

----------------------------------------------------------------------------
(* characterData, wsstrip, indent.                                         *)

\* realloc(pd->content, n): the bytes are kept, the capacity becomes n
Grow(p, need, n) ==
  IF need > p.acontent THEN [p EXCEPT !.acontent = n] ELSE p

\* characterData(userData, s, len), with s the len characters delivered
characterData(p, s) ==
  IF p.docontent = 0 THEN p
  ELSE LET l == p.lcontent + Len(s) + 1
           q == Grow(p, l, l + 256)
       IN  [q EXCEPT !.lcontent = p.lcontent + Len(s),
                     !.content = BufPut(BufWrite(p.content, p.lcontent, s),
                                        p.lcontent + Len(s), NUL)]

\* ws |= b, for the bits 1 and 2
BitOr(ws, b) == IF (ws \div b) % 2 = 1 THEN ws ELSE ws + b

\* the loop of wsstrip: i reads, j writes, ws holds the kinds of white space
\* passed since the last character kept
RECURSIVE WsLoop(_, _, _, _)
WsLoop(buf, i, j, ws) ==
  LET c == BufGet(buf, i) IN
  IF c = NUL \/ c = UNINIT THEN [buf |-> buf, j |-> j]
  ELSE IF IsSpace(c)
    THEN WsLoop(buf, i + 1, j, BitOr(ws, IF c = "\n" THEN 2 ELSE 1))
  ELSE IF ws # 0 /\ j # 0
    THEN WsLoop(BufPut(BufPut(buf, j, IF (ws \div 2) % 2 = 1 THEN "\n" ELSE " "),
                       j + 1, c),
                i + 1, j + 2, 0)
  ELSE WsLoop(BufPut(buf, j, c), i + 1, j + 1, 0)

\* wsstrip(pd) without line 221: the tracked length stays what it was
wsstrip_KeepLength(p) ==
  LET r == WsLoop(p.content, 0, 0, 0)
  IN  [p EXCEPT !.content = BufPut(r.buf, r.j, NUL)]

\* wsstrip(pd): white space runs become one space or newline, leading and
\* trailing white space goes
wsstrip(p) ==
  LET r == WsLoop(p.content, 0, 0, 0)
  IN  [p EXCEPT !.content = BufPut(r.buf, r.j, NUL), !.lcontent = r.j]

\* while (pd->content[l] && pd->content[l] != '\n') l++;
RECURSIVE SkipLine(_, _)
SkipLine(buf, l) ==
  LET c == BufGet(buf, l) IN
  IF c = NUL \/ c = UNINIT \/ c = "\n" THEN l ELSE SkipLine(buf, l + 1)

\* memmove(content + l + il, content + l, n)
MemMove(buf, to, from, n) ==
  IF n <= 0 THEN buf
  ELSE BufWrite(buf, to, [ k \in 1..n |-> BufGet(buf, from + k - 1) ])

Spaces(n) == [ k \in 1..n |-> " " ]

\* the loop of indent, from position l on
RECURSIVE IndentLoop(_, _, _)
IndentLoop(p, il, l) ==
  LET c == BufGet(p.content, l) IN
  IF c = NUL \/ c = UNINIT THEN p
  ELSE IF c = "\n" THEN IndentLoop(p, il, l + 1)
  ELSE LET q == Grow(p, p.lcontent + il + 1, p.lcontent + il + 256)
           moved == MemMove(q.content, l + il, l, q.lcontent - l + 1)
           r == [q EXCEPT !.content = BufWrite(moved, l, Spaces(il)),
                          !.lcontent = q.lcontent + il]
       IN  IndentLoop(r, il, SkipLine(r.content, l))

\* indent(pd, il) that leaves its loop after the first line
indent_FirstLine(p, il) ==
  LET c == BufGet(p.content, 0) IN
  IF c = NUL \/ c = UNINIT \/ c = "\n" THEN p
  ELSE LET q == Grow(p, p.lcontent + il + 1, p.lcontent + il + 256)
           moved == MemMove(q.content, il, 0, q.lcontent + 1)
       IN  [q EXCEPT !.content = BufWrite(moved, 0, Spaces(il)),
                     !.lcontent = q.lcontent + il]

\* indent(pd, il): il spaces in front of every line
indent(p, il) == IndentLoop(p, il, 0)

----------------------------------------------------------------------------
(* The package store: the solvables of the repo, and their strings.  A     *)
(* string id is the string itself; the id 0 is NULL.                       *)

\* a solvable as repo_add_solvable leaves it: every field zero
ZeroSolvable ==
  [ name |-> NULL, arch |-> NULL, evr |-> NULL,
    requires |-> << >>, provides |-> << >>,
    category |-> NULL, summary |-> NULL, url |-> NULL, description |-> NULL,
    license |-> << >>, group |-> << >>, extends |-> << >>,
    keywords |-> << >> ]

ARCH_NOARCH == Some(<<"n","o","a","r","c","h">>)
ARCH_SRC == Some(<<"s","r","c">>)
ARCH_NOSRC == Some(<<"n","o","s","r","c">>)
\* the id of the empty string
ID_EMPTY == Some(<< >>)

\* a dependency on the string s
StrDep(s) == [ id |-> s, flags |-> "", evr |-> NULL ]
\* pool_rel2id(pool, name, evr, flags, 1)
pool_rel2id(name, evr, fl) == [ id |-> Val(name), flags |-> fl, evr |-> evr ]
\* repo_addid_dep(repo, olddeps, id, 0): an id the list holds already is
\* not added again
repo_addid_dep(olddeps, dep) ==
  IF \E k \in 1..Len(olddeps) : olddeps[k] = dep
    THEN olddeps ELSE Append(olddeps, dep)

\* repodata_set_str, repodata_set_poolstr: one field of the record h
SetField(sv, h, f, v) ==
  [ k \in 1..Len(sv) |-> IF k = h THEN [sv[k] EXCEPT ![f] = v] ELSE sv[k] ]
\* repodata_add_poolstr_array
AddField(sv, h, f, v) == SetField(sv, h, f, Append(sv[h][f], v))

\* repo_free_solvable(repo, p, 1): the last solvable is given back, another
\* one is blanked
repo_free_solvable(sv, h) ==
  IF h = Len(sv) THEN SubSeq(sv, 1, Len(sv) - 1)
  ELSE SetField(SetField(sv, h, "name", NULL), h, "arch", NULL)

----------------------------------------------------------------------------
(* startElement.                                                           *)

\* the entry of a state, lines 178 to 198
StartState(p, sv, atts) ==
  CASE p.state = "STATE_APPLICATION" ->
         LET type == find_attr("type", atts)
             h == Len(sv) + 1
         IN  [ pd |-> [p EXCEPT !.solvable = h, !.handle = h,
                                !.havesummary = 0],
               sv |-> SetField(Append(sv, ZeroSolvable), h, "category",
                               IF type = NULL \/ Val(type) = << >>
                                 THEN Some(STR_type_desktop) ELSE type) ]
    [] p.state = "STATE_DESCRIPTION" ->
         [ pd |-> [p EXCEPT !.description = NULL], sv |-> sv ]
    [] p.state \in { "STATE_OL", "STATE_UL" } ->
         [ pd |-> [p EXCEPT !.licnt = 0], sv |-> sv ]
    [] OTHER -> [ pd |-> p, sv |-> sv ]

\* the language filter without its test of xml:lang
SkipFilter_NoLang(p, atts) ==
  IF p.skip_depth # 0 THEN [p EXCEPT !.docontent = 0] ELSE p

\* the language filter, lines 170 to 176: the element is left when a skip
\* is on
SkipFilter(p, atts) ==
  LET q == IF p.skip_depth = 0 /\ find_attr("xml:lang", atts) # NULL
             THEN [p EXCEPT !.skip_depth = p.depth] ELSE p
  IN  IF q.skip_depth # 0 THEN [q EXCEPT !.docontent = 0] ELSE q

\* startElement(userData, name, atts)
startElement(p, sv, name, atts) ==
  IF p.depth # p.statedepth
    THEN [ pd |-> [p EXCEPT !.depth = p.depth + 1], sv |-> sv ]
  ELSE
    LET p1 == [p EXCEPT !.depth = p.depth + 1] IN
    IF swtab(p1.state) = 0 THEN [ pd |-> p1, sv |-> sv ]
    ELSE
      LET sw == stateswitches[FindSwitch(swtab(p1.state), p1.state, name)] IN
      IF sw.from # p1.state THEN [ pd |-> p1, sv |-> sv ]
      ELSE
        LET p2 == [p1 EXCEPT !.state = sw.to, !.docontent = sw.docontent,
                             !.statedepth = p1.depth, !.lcontent = 0,
                             !.content = BufPut(p1.content, 0, NUL)]
            p3 == SkipFilter(p2, atts)
        IN  IF p3.skip_depth # 0 THEN [ pd |-> p3, sv |-> sv ]
            ELSE StartState(p3, sv, atts)

----------------------------------------------------------------------------
(* endElement.                                                             *)

\* guess_filename_from_id without the tests that the id is longer than the
\* suffix
guess_filename_from_id_AnyLength(id) ==
  LET l == Len(id)
      r == pool_tmpjoin(id, STR_metainfo_xml, << >>)
  IN  IF EndsWith(id, STR_desktop)
        THEN Some(SubSeq(r, 1, l - 8) \o STR_appdata_xml)
      ELSE IF EndsWith(id, STR_ttf) \/ EndsWith(id, STR_otf)
                \/ EndsWith(id, STR_xml)
        THEN Some(SubSeq(r, 1, l - 4) \o STR_metainfo_xml)
      ELSE IF EndsWith(id, STR_db)
        THEN Some(SubSeq(r, 1, l - 3) \o STR_metainfo_xml)
      ELSE NULL

\* guess_filename_from_id whose last branch returns r
guess_filename_from_id_Fallback(id) ==
  LET l == Len(id)
      r == pool_tmpjoin(id, STR_metainfo_xml, << >>)
  IN  IF l > 8 /\ EndsWith(id, STR_desktop)
        THEN Some(SubSeq(r, 1, l - 8) \o STR_appdata_xml)
      ELSE IF l > 4 /\ (EndsWith(id, STR_ttf) \/ EndsWith(id, STR_otf)
                          \/ EndsWith(id, STR_xml))
        THEN Some(SubSeq(r, 1, l - 4) \o STR_metainfo_xml)
      ELSE IF l > 3 /\ EndsWith(id, STR_db)
        THEN Some(SubSeq(r, 1, l - 3) \o STR_metainfo_xml)
      ELSE Some(r)

\* guess_filename_from_id(pool, id): NULL when no suffix is recognized
guess_filename_from_id(id) ==
  LET l == Len(id)
      r == pool_tmpjoin(id, STR_metainfo_xml, << >>)
  IN  IF l > 8 /\ EndsWith(id, STR_desktop)
        THEN Some(SubSeq(r, 1, l - 8) \o STR_appdata_xml)
      ELSE IF l > 4 /\ EndsWith(id, STR_ttf)
        THEN Some(SubSeq(r, 1, l - 4) \o STR_metainfo_xml)
      ELSE IF l > 4 /\ EndsWith(id, STR_otf)
        THEN Some(SubSeq(r, 1, l - 4) \o STR_metainfo_xml)
      ELSE IF l > 4 /\ EndsWith(id, STR_xml)
        THEN Some(SubSeq(r, 1, l - 4) \o STR_metainfo_xml)
      ELSE IF l > 3 /\ EndsWith(id, STR_db)
        THEN Some(SubSeq(r, 1, l - 3) \o STR_metainfo_xml)
      ELSE NULL

\* add_missing_tags_from_desktop_file, the loop over the key=value lines of
\* the [Desktop Entry] section: m is [pd, s], entries the lines left
RECURSIVE DeskLoop(_, _)
DeskLoop(m, entries) ==
  IF entries = << >> THEN m
  ELSE
    LET key == Head(entries)[1]
        value == Head(entries)[2]
    IN  IF m.s.name = NULL /\ key = "Name"
          THEN LET n == [m EXCEPT !.s.name =
                           Some(pool_tmpjoin(STR_application_colon, value, << >>))]
               IN  IF n.pd.havesummary # 0 THEN n ELSE DeskLoop(n, Tail(entries))
        ELSE IF m.pd.havesummary = 0 /\ key = "Comment"
          THEN LET n == [m EXCEPT !.pd.havesummary = 1,
                                  !.s.summary = Some(value)]
               IN  IF n.s.name # NULL THEN n ELSE DeskLoop(n, Tail(entries))
        ELSE DeskLoop(m, Tail(entries))

\* add_missing_tags_from_desktop_file(pd, s, desktop_file): de is NULL when
\* the file cannot be opened
add_missing_tags_from_desktop_file(m, de) ==
  IF de = NULL THEN m ELSE DeskLoop(m, Val(de))

\* lines 385 to 392: the name taken from the desktop file name
NameFromDesktopFile(m) ==
  IF m.s.name = NULL /\ m.pd.desktop_file # NULL
    THEN LET name == pool_tmpjoin(STR_application_colon,
                                  Val(m.pd.desktop_file), << >>)
             l == Len(name)
             n == IF l > 8 /\ EndsWith(name, STR_desktop) THEN l - 8 ELSE l
         IN  [m EXCEPT !.s.name = Some(SubSeq(name, 1, n))]
    ELSE m

\* the loop of lines 397 to 403 over the owners from the i-th on
RECURSIVE OwnerLoop(_, _, _)
OwnerLoop(m, sv, i) ==
  IF i > Len(Val(m.pd.owners)) THEN m
  ELSE
    LET os == sv[Val(m.pd.owners)[i]]
        id == pool_tmpjoin(STR_application_appdata, Val(os.name), STR_rparen)
    IN  OwnerLoop([m EXCEPT
                     !.s.requires = repo_addid_dep(m.s.requires,
                                                   StrDep(Val(os.name))),
                     !.s.provides = repo_addid_dep(m.s.provides, StrDep(id))],
                  sv, i + 1)

\* lines 393 to 404
OwnerDeps(m, sv) ==
  IF m.s.requires = << >> /\ m.pd.owners # NULL
    THEN OwnerLoop(m, sv, 1) ELSE m

\* lines 405 to 417 without the test that the record requires nothing
FilenameDeps_Always(m) ==
  IF m.pd.desktop_file # NULL \/ m.pd.filename # NULL
    THEN
      LET fn == IF m.pd.filename # NULL THEN m.pd.filename
                ELSE guess_filename_from_id(Val(m.pd.desktop_file))
      IN  IF fn # NULL
            THEN LET full == pool_tmpjoin(STR_application_appdata, Val(fn),
                                          STR_rparen)
                 IN  [m EXCEPT
                        !.s.requires = repo_addid_dep(m.s.requires,
                            StrDep(SubSeq(full, 12 + 1, Len(full)))),
                        !.s.provides = repo_addid_dep(m.s.provides,
                                                      StrDep(full))]
            ELSE m
    ELSE m

\* lines 405 to 417: the appdata() link requires and provides
FilenameDeps(m) ==
  IF m.s.requires = << >> /\ (m.pd.desktop_file # NULL \/ m.pd.filename # NULL)
    THEN
      LET fn == IF m.pd.filename # NULL THEN m.pd.filename
                ELSE guess_filename_from_id(Val(m.pd.desktop_file))
      IN  IF fn # NULL
            THEN LET full == pool_tmpjoin(STR_application_appdata, Val(fn),
                                          STR_rparen)
                 IN  [m EXCEPT
                        !.s.requires = repo_addid_dep(m.s.requires,
                            StrDep(SubSeq(full, 12 + 1, Len(full)))),
                        !.s.provides = repo_addid_dep(m.s.provides,
                                                      StrDep(full))]
            ELSE m
    ELSE m

\* lines 418 and 419 for a record that provides nothing yet
SelfProvide_IfNoProvides(m) ==
  IF m.s.name # NULL /\ m.s.provides = << >>
    THEN [m EXCEPT !.s.provides =
            repo_addid_dep(m.s.provides,
                           pool_rel2id(m.s.name, m.s.evr, "REL_EQ"))]
    ELSE m

\* lines 418 and 419: the record provides itself
SelfProvide(m) ==
  IF m.s.name # NULL /\ m.s.arch # ARCH_SRC /\ m.s.arch # ARCH_NOSRC
    THEN [m EXCEPT !.s.provides =
            repo_addid_dep(m.s.provides,
                           pool_rel2id(m.s.name, m.s.evr, "REL_EQ"))]
    ELSE m

\* lines 379 to 382 without the default of the version
DefaultArchEvr_NoEvr(m) ==
  IF m.s.arch = NULL THEN [m EXCEPT !.s.arch = ARCH_NOARCH] ELSE m

\* lines 379 to 382
DefaultArchEvr(m) ==
  LET a == IF m.s.arch = NULL THEN [m EXCEPT !.s.arch = ARCH_NOARCH] ELSE m
  IN  IF a.s.evr = NULL THEN [a EXCEPT !.s.evr = ID_EMPTY] ELSE a

\* lines 383 and 384
DesktopFallback(m, de) ==
  IF /\ (m.s.name = NULL \/ m.pd.havesummary = 0)
     /\ "APPDATA_CHECK_DESKTOP_FILE" \in m.pd.flags
     /\ m.pd.desktop_file # NULL
    THEN add_missing_tags_from_desktop_file(m, de) ELSE m

\* case STATE_APPLICATION of endElement
EndApplication(p, sv, de) ==
  LET m0 == [ pd |-> p, s |-> sv[p.solvable] ]
      m1 == DefaultArchEvr(m0)
      m2 == DesktopFallback(m1, de)
      m3 == NameFromDesktopFile(m2)
      m4 == OwnerDeps(m3, sv)
      m5 == FilenameDeps(m4)
      m6 == SelfProvide(m5)
  IN  [ pd |-> [m6.pd EXCEPT !.solvable = 0, !.desktop_file = NULL],
        sv |-> [sv EXCEPT ![p.solvable] = m6.s] ]

\* '0' + d
Digit(d) == <<"0","1","2","3","4","5","6","7","8","9">>[d + 1]

\* solv_dupappend(str1, str2, str3): str1 may be null
solv_dupappend(str1, str2, str3) ==
  Some((IF str1 = NULL THEN << >> ELSE Val(str1)) \o str2 \o str3)

\* lines 449 to 451: the trailing newlines of the description go
RECURSIVE StripNewlines(_)
StripNewlines(d) ==
  IF d # << >> /\ d[Len(d)] = "\n"
    THEN StripNewlines(SubSeq(d, 1, Len(d) - 1)) ELSE d

\* what endElement does to the content buffer before it reads it as a
\* string: the cases STATE_P, STATE_UL_LI and STATE_OL_LI up to their
\* solv_dupappend
NormalizeContent(p) ==
  CASE p.state = "STATE_P" -> wsstrip(p)
    [] p.state = "STATE_UL_LI" ->
         LET q == indent(wsstrip(p), 4)
         IN  [q EXCEPT !.content = BufPut(q.content, 2, "-")]
    [] p.state = "STATE_OL_LI" ->
         LET q == indent(wsstrip(p), 4)
             n == q.licnt + 1
             c0 == IF n >= 10
                     THEN BufPut(q.content, 0, Digit((n \div 10) % 10))
                     ELSE q.content
             c1 == BufPut(c0, 1, Digit(n % 10))
         IN  [q EXCEPT !.licnt = n, !.content = BufPut(c1, 2, ".")]
    [] OTHER -> p

\* the states whose case reads the record through the pointer s
UsesSolvable(st) == st \in { "STATE_APPLICATION", "STATE_NAME", "STATE_PKGNAME" }

\* case STATE_NAME that keeps a name the record has already
EndName_KeepFirst(p, sv, str) ==
  IF sv[p.solvable].name # NULL THEN [ pd |-> p, sv |-> sv ]
  ELSE [ pd |-> p,
         sv |-> SetField(sv, p.solvable, "name",
                  Some(pool_tmpjoin(STR_application_colon, str, << >>))) ]

\* case STATE_NAME of endElement, line 427
EndName(p, sv, str) ==
  [ pd |-> p,
    sv |-> SetField(sv, p.solvable, "name",
             Some(pool_tmpjoin(STR_application_colon, str, << >>))) ]

\* the text of an element without the white space in front of it
StoredText_NoLeadingSpace(str) ==
  IF str # << >> /\ IsSpace(Head(str)) THEN Tail(str) ELSE str

\* what the cases STATE_LICENCE, STATE_SUMMARY, STATE_URL, STATE_GROUP,
\* STATE_EXTENDS and STATE_KEYWORD hand to the store: pd->content as it is
StoredText(str) == str

\* case STATE_DESCRIPTION that writes no description without a character
EndDescription_NonEmpty(p, sv) ==
  IF p.description # NULL
    THEN LET d == StripNewlines(Val(p.description))
         IN  [ pd |-> [p EXCEPT !.description = Some(d)],
               sv |-> IF d = << >> THEN sv
                      ELSE SetField(sv, p.handle, "description", Some(d)) ]
    ELSE [ pd |-> p, sv |-> sv ]

\* case STATE_DESCRIPTION of endElement, lines 445 to 454
EndDescription(p, sv) ==
  IF p.description # NULL
    THEN LET d == StripNewlines(Val(p.description))
         IN  [ pd |-> [p EXCEPT !.description = Some(d)],
               sv |-> SetField(sv, p.handle, "description", Some(d)) ]
    ELSE [ pd |-> p, sv |-> sv ]

\* the switch of endElement, lines 376 to 489; str is pd->content as the
\* string functions read it
EndState(p, sv, de, str) ==
  LET h == p.handle
      same == [ pd |-> p, sv |-> sv ]
  IN
  CASE p.state = "STATE_APPLICATION" -> EndApplication(p, sv, de)
    [] p.state = "STATE_ID" ->
         [ pd |-> [p EXCEPT !.desktop_file = Some(str)], sv |-> sv ]
    [] p.state = "STATE_NAME" -> EndName(p, sv, str)
    [] p.state = "STATE_LICENCE" ->
         [ pd |-> p, sv |-> AddField(sv, h, "license", StoredText(str)) ]
    [] p.state = "STATE_SUMMARY" ->
         [ pd |-> [p EXCEPT !.havesummary = 1],
           sv |-> SetField(sv, h, "summary", Some(StoredText(str))) ]
    [] p.state = "STATE_URL" ->
         [ pd |-> p, sv |-> SetField(sv, h, "url", Some(StoredText(str))) ]
    [] p.state = "STATE_GROUP" ->
         [ pd |-> p, sv |-> AddField(sv, h, "group", StoredText(str)) ]
    [] p.state = "STATE_EXTENDS" ->
         [ pd |-> p, sv |-> AddField(sv, h, "extends", StoredText(str)) ]
    [] p.state = "STATE_DESCRIPTION" -> EndDescription(p, sv)
    [] p.state = "STATE_P" ->
         [ pd |-> [p EXCEPT !.description =
                     solv_dupappend(p.description, str, STR_nlnl)],
           sv |-> sv ]
    [] p.state \in { "STATE_UL_LI", "STATE_OL_LI" } ->
         [ pd |-> [p EXCEPT !.description =
                     solv_dupappend(p.description, str, STR_nl)],
           sv |-> sv ]
    [] p.state \in { "STATE_UL", "STATE_OL" } ->
         [ pd |-> [p EXCEPT !.description =
                     solv_dupappend(p.description, STR_nl, << >>)],
           sv |-> sv ]
    [] p.state = "STATE_PKGNAME" ->
         LET s == sv[p.solvable]
             id == pool_tmpjoin(STR_application_appdata, str, STR_rparen)
         IN  [ pd |-> p,
               sv |-> SetField(
                        SetField(sv, p.solvable, "requires",
                                 repo_addid_dep(s.requires, StrDep(str))),
                        p.solvable, "provides",
                        repo_addid_dep(s.provides, StrDep(id))) ]
    [] p.state = "STATE_KEYWORD" ->
         [ pd |-> p, sv |-> AddField(sv, h, "keywords", StoredText(str)) ]
    [] OTHER -> same

\* lines 491 and 492: back to the parent state
RestoreState(p) == [p EXCEPT !.state = sbtab(p.state), !.docontent = 0]

\* lines 366 to 373 without lines 368 and 369: the skip is never lifted
EndSkipped_KeepSkip(p) == RestoreState(p)

\* lines 366 to 373: the end of an element inside a language skip
EndSkipped(p) ==
  LET q == IF p.depth + 1 = p.skip_depth THEN [p EXCEPT !.skip_depth = 0]
           ELSE p
  IN  RestoreState(q)

\* endElement(userData, name): the set of its outcomes, one for every
\* string the reads of pd->content can see; crash marks a store through the
\* null pointer s
endElement(p, sv, de) ==
  IF p.depth # p.statedepth
    THEN { [ pd |-> [p EXCEPT !.depth = p.depth - 1], sv |-> sv,
             crash |-> FALSE ] }
  ELSE
    LET p1 == [p EXCEPT !.depth = p.depth - 1,
                        !.statedepth = p.statedepth - 1] IN
    IF p1.skip_depth # 0 /\ p1.depth + 1 >= p1.skip_depth
      THEN { [ pd |-> EndSkipped(p1), sv |-> sv, crash |-> FALSE ] }
    ELSE
      LET p2 == [p1 EXCEPT !.skip_depth = 0] IN
      IF UsesSolvable(p2.state) /\ p2.solvable = 0
        THEN { [ pd |-> p2, sv |-> sv, crash |-> TRUE ] }
      ELSE
        LET p3 == NormalizeContent(p2) IN
        { LET r == EndState(p3, sv, de, str)
          IN  [ pd |-> RestoreState(r.pd), sv |-> r.sv, crash |-> FALSE ]
          : str \in CStrings(p3.content) }

----------------------------------------------------------------------------
(* The documents and the calls.  A document is drawn from the vocabulary   *)
(* of its family: tags, attribute lists and pieces of character data.      *)

\* the start tags of one document
MaxStarts == 4
\* the characters of one element's text
MaxContent == 2

LANG_DE == << <<"xml:lang", <<"d","e">> >> >>
TYPE_FONT == << <<"type", <<"f","o","n","t">> >> >>
TYPE_EMPTY == << <<"type", << >> >> >>

Families == { "fields", "batch", "desc", "list", "deps", "values" }

Tags(f) ==
  CASE f = "fields" -> { "application", "name", "summary", "url", "em" }
    [] f = "batch" -> { "components", "component", "name", "screenshot" }
    [] f = "desc" -> { "application", "description", "p", "ul", "ol", "li" }
    [] f = "list" -> { "application", "description", "ol", "li" }
    [] f = "deps" -> { "application", "id", "pkgname" }
    [] f = "values" -> { "application", "summary", "url", "product_license",
                         "project_group", "extends", "keywords", "keyword" }
    [] f = "dir" -> { "application" }

Atts(f) ==
  CASE f = "fields" -> { << >>, LANG_DE }
    [] f = "batch" -> { << >>, LANG_DE, TYPE_FONT, TYPE_EMPTY }
    [] f = "desc" -> { << >> }
    [] f = "list" -> { << >> }
    [] f = "deps" -> { << >>, LANG_DE }
    [] f = "values" -> { << >> }
    [] f = "dir" -> { << >> }

STR_bin == <<".","b","i","n">>

\* the pieces of character data the tokenizer delivers in one call
Chunks(f) ==
  CASE f = "fields" -> { <<"A">>, <<"B">> }
    [] f = "batch" -> { <<"A">> }
    [] f = "desc" -> { <<"a">>, <<"\n">> }
    [] f = "list" -> { <<"a">> }
    [] f = "deps" -> { STR_desktop, <<"f">> \o STR_desktop, STR_ttf,
                       <<"f","o">> \o STR_ttf, <<"f","o">> \o STR_otf,
                       <<"f","o">> \o STR_xml, <<"f","o","o">> \o STR_db,
                       <<"f","o">> \o STR_bin }
    [] f = "values" -> { <<"a">>, <<" ">> }
    [] f = "dir" -> { <<"A">> }

\* the start tags of a document of the family
StartsOf(f) ==
  CASE f = "batch" -> MaxStarts + 1
    [] f = "desc" -> MaxStarts + 1
    [] f = "list" -> MaxItems + 3
    [] f = "deps" -> MaxStarts - 1
    [] f = "values" -> MaxStarts - 1
    [] f = "dir" -> MaxStarts - 3
    [] OTHER -> MaxStarts

\* the characters of the text of one element of the family
ContentOf(f) ==
  CASE f = "desc" -> MaxContent + 1
    [] f = "list" -> MaxContent - 1
    [] f = "deps" -> MaxContent + 7
    [] OTHER -> MaxContent

\* the start tags after which the documents of the family carry text: the
\* long list has its text in its last two items
TextFrom(f) == IF f = "list" THEN MaxItems + 2 ELSE 0

\* the text of an element that carries xml:lang, in every family
LangText == <<"L">>

\* the state an element named tag leads to from the state s of its parent,
\* by the state table alone; "unknown" when the table has no entry, or the
\* parent is unknown itself
PathNext(s, tag) ==
  LET is == { i \in SwIndexes : /\ stateswitches[i].from = s
                                /\ stateswitches[i].ename = tag }
  IN  IF is = {} THEN "unknown" ELSE stateswitches[CHOOSE i \in is : TRUE].to

PathTop(stack) == IF stack = << >> THEN "STATE_START" ELSE stack[Len(stack)].st

HasLang(atts) == \E k \in 1..Len(atts) : atts[k][1] = "xml:lang"

\* what the tokenizer's stack keeps of an element: the state its path leads
\* to, whether it is an element the table knows that carries xml:lang, and
\* the state, depth, statedepth and skip_depth its start tag met in p
Element(stack, tag, atts, p) ==
  LET st == PathNext(PathTop(stack), tag)
  IN  [ st |-> st, lang |-> st # "unknown" /\ HasLang(atts),
        saved |-> << p.state, p.depth, p.statedepth, p.skip_depth >> ]

\* an open element the state table knows carries xml:lang
LangOpen(stack) == \E i \in 1..Len(stack) : stack[i].lang

\* an open element has no entry in the state table
UnknownOpen(stack) == PathTop(stack) = "unknown"

----------------------------------------------------------------------------
(* repo_add_appdata_fn.                                                    *)

DIR_FLAGS == { "REPO_NO_INTERNALIZE", "REPO_REUSE_REPODATA",
               "APPDATA_CHECK_DESKTOP_FILE" }

\* the parsedata of lines 535 to 544
InitPd(fl, fn, ow) ==
  [ depth |-> 0, state |-> "STATE_START", statedepth |-> 0,
    content |-> << >>, lcontent |-> 0, acontent |-> 256, docontent |-> 0,
    solvable |-> 0, handle |-> 0, description |-> NULL, licnt |-> 0,
    skip_depth |-> 0, flags |-> fl, desktop_file |-> NULL,
    havesummary |-> 0, filename |-> fn, owners |-> ow ]

\* a record of the repo that a package left there before the call
Package(n) == [ZeroSolvable EXCEPT !.name = Some(n), !.arch = ARCH_NOARCH,
                                   !.evr = ID_EMPTY]

STR_f_appdata_xml == <<"f">> \o STR_appdata_xml

\* the calls: repo_add_appdata (no file name, no owners), and the ones of
\* repo_add_appdata_dir (the name of the directory entry, the owners found
\* for it, if any)
Calls(f) ==
  { [ flags |-> {}, filename |-> NULL, owners |-> NULL, sv |-> << >>,
      de |-> NULL ] }
  \cup
  (IF f = "deps"
     THEN { [ flags |-> DIR_FLAGS, filename |-> Some(STR_f_appdata_xml),
              owners |-> ow, sv |-> << Package(<<"p">>), Package(<<"q">>) >>,
              de |-> d ] :
            ow \in { NULL, Some(<< 1, 2 >>) },
            d \in { NULL,
                    Some(<< <<"Comment", <<"C">> >>, <<"Name", <<"N">> >>,
                            <<"Name", <<"M">> >> >>) } }
     ELSE { })

\* the event ev with its argument, and the state it meets
Event(ev, arg) ==
  [ ev |-> ev, arg |-> arg, pd |-> pd, sv |-> solvables, open |-> open ]

\* repo_add_appdata is no call of repo_add_appdata_dir: no directory, no
\* file lists, no error yet
NoBatch ==
  [ active |-> FALSE, exists |-> FALSE, flags |-> {}, entries |-> << >>,
    unreadable |-> {}, files |-> << >>, pos |-> 1, flq |-> << >>,
    attempted |-> << >>, errors |-> << >>, ret |-> 0 ]

\* pool_error(pool, ...): one more error, of a file and of a kind
pool_error(b, file, kind) ==
  [b EXCEPT !.errors = Append(@, [ file |-> file, kind |-> kind ])]

InitFamily(f) ==
  /\ family = f
  /\ batch = NoBatch
  /\ \E c \in Calls(f) :
       /\ pd = InitPd(c.flags, c.filename, c.owners)
       /\ solvables = c.sv
       /\ deskentries = c.de
  /\ ret = 0
  /\ phase = "parse"
  /\ open = << >>
  /\ nstart = 0
  /\ last = Event("none", << >>)

Init == \E f \in Families : InitFamily(f)

\* the tokenizer delivers a start tag
StartElement ==
  /\ phase = "parse"
  /\ nstart < StartsOf(family)
  /\ Len(open) < MaxDepth
  /\ open # << >> \/ nstart = 0
  /\ \E name \in Tags(family), atts \in Atts(family) :
       LET r == startElement(pd, solvables, name, atts) IN
       /\ pd' = r.pd
       /\ solvables' = r.sv
       /\ open' = Append(open, Element(open, name, atts, pd))
       /\ last' = Event("start", << name, atts >>)
  /\ nstart' = nstart + 1
  /\ UNCHANGED << deskentries, ret, phase, family, batch >>

\* the tokenizer delivers an end tag
EndElement ==
  /\ phase = "parse"
  /\ open # << >>
  /\ \E r \in endElement(pd, solvables, deskentries) :
       /\ pd' = r.pd
       /\ solvables' = r.sv
       /\ phase' = IF r.crash THEN "crashed" ELSE phase
  /\ open' = SubSeq(open, 1, Len(open) - 1)
  /\ last' = Event("end", << >>)
  /\ UNCHANGED << deskentries, ret, nstart, family, batch >>

\* the tokenizer delivers character data
CharacterData ==
  /\ phase = "parse"
  /\ open # << >>
  /\ \E s \in (IF LangOpen(open) THEN { LangText } ELSE Chunks(family)) :
       /\ pd.lcontent + Len(s) <= ContentOf(family)
       /\ nstart >= TextFrom(family)
       /\ pd' = characterData(pd, s)
       /\ last' = Event("text", s)
  /\ UNCHANGED << solvables, deskentries, ret, phase, open, nstart, family,
                  batch >>

\* the error branch that leaves the record of the open element in the repo
ErrorCleanup_KeepRecord(p, sv) == [ pd |-> [p EXCEPT !.solvable = 0], sv |-> sv ]

\* lines 564 to 568: the record of the element that is open goes
ErrorCleanup(p, sv) ==
  IF p.solvable # 0
    THEN [ pd |-> [p EXCEPT !.solvable = 0],
           sv |-> repo_free_solvable(sv, p.solvable) ]
    ELSE [ pd |-> p, sv |-> sv ]

\* XML_Parse returns XML_STATUS_ERROR, lines 561 to 571
XmlError ==
  /\ phase = "parse"
  /\ ret' = -1
  /\ pd' = ErrorCleanup(pd, solvables).pd
  /\ solvables' = ErrorCleanup(pd, solvables).sv
  /\ phase' = "done"
  /\ last' = Event("error", << >>)
  /\ batch' = pool_error(batch, pd.filename, "parse")
  /\ UNCHANGED << deskentries, open, nstart, family >>

\* the input ends and the last XML_Parse succeeds, lines 572 and 573: the
\* document is complete
Finish ==
  /\ phase = "parse"
  /\ open = << >>
  /\ nstart > 0
  /\ phase' = "done"
  /\ last' = Event("finish", << >>)
  /\ UNCHANGED << pd, solvables, deskentries, ret, open, nstart, family,
                  batch >>

Next == StartElement \/ EndElement \/ CharacterData \/ XmlError \/ Finish

Spec == Init /\ [][Next]_vars
SpecFields == InitFamily("fields") /\ [][Next]_vars
SpecBatch == InitFamily("batch") /\ [][Next]_vars
SpecDesc == InitFamily("desc") /\ [][Next]_vars
SpecList == InitFamily("list") /\ [][Next]_vars
SpecDeps == InitFamily("deps") /\ [][Next]_vars
SpecValues == InitFamily("values") /\ [][Next]_vars

----------------------------------------------------------------------------
(* repo_add_appdata_dir and search_uninternalized_filelist.                *)

\* the entries of the directory
MaxEntries == 2

STR_fo_appdata_xml == <<"f","o">> \o STR_appdata_xml
STR_f_metainfo_xml == <<"f">> \o STR_metainfo_xml
STR_dot_appdata_xml == <<".","f">> \o STR_appdata_xml
STR_releasenotes_txt ==
  <<"r","e","l","e","a","s","e","n","o","t","e","s",".","t","x","t">>

\* the names a directory entry or an entry of a file list may have
EntryNames == { STR_f_appdata_xml, STR_fo_appdata_xml, STR_f_metainfo_xml,
                STR_dot_appdata_xml, STR_releasenotes_txt }
\* what readdir may enumerate: up to MaxEntries entries of different names
Listings ==
  { l \in UNION { [ 1..k -> EntryNames ] : k \in 0..MaxEntries } :
      \A i, j \in 1..Len(l) : i # j => l[i] # l[j] }
\* the file lists, in the directory, of the two packages of the repo
PackageFiles ==
  << << STR_f_appdata_xml, STR_fo_appdata_xml, STR_releasenotes_txt >>,
     << STR_fo_appdata_xml, STR_f_metainfo_xml >> >>

\* str + k
TailFrom(str, k) == SubSeq(str, k + 1, Len(str))
\* strcmp and strncmp: 0 when the strings, or their first n characters, are
\* the same
strcmp(a, b) == IF a = b THEN 0 ELSE 1
strncmp(a, b, n) ==
  IF SubSeq(a, 1, n) = SubSeq(b, 1, n) /\ (Len(a) >= n <=> Len(b) >= n)
    THEN 0 ELSE 1

\* lines 627 to 633: the entry of a file list goes into the queue
FilelistKeeps(str) ==
  LET l == Len(str) IN
  IF l > 12 /\ strncmp(TailFrom(str, l - 12), STR_appdata_xml, 12) # 0
    THEN TRUE
  ELSE IF l > 13 /\ strncmp(TailFrom(str, l - 13), STR_metainfo_xml, 13) # 0
    THEN TRUE
  ELSE FALSE

\* the loop of lines 618 to 635 over the entries strs of the file list of
\* the solvable p: the pairs pushed
RECURSIVE ScanFiles(_, _)
ScanFiles(p, strs) ==
  IF strs = << >> THEN << >>
  ELSE (IF FilelistKeeps(Head(strs)) THEN << << p, Head(strs) >> >>
        ELSE << >>) \o ScanFiles(p, Tail(strs))

\* search_uninternalized_filelist(repo, dir, res): files[p] is the file
\* list of the solvable p in dir; the loop of line 611 from p on
RECURSIVE search_uninternalized_filelist(_, _)
search_uninternalized_filelist(files, p) ==
  IF p > Len(files) THEN << >>
  ELSE ScanFiles(p, files[p]) \o search_uninternalized_filelist(files, p + 1)

\* lines 681 to 689: the solvables queued with the name of the entry
RECURSIVE OwnerQueue(_, _)
OwnerQueue(flq, name) ==
  IF flq = << >> THEN << >>
  ELSE (IF Head(flq)[2] = name THEN << Head(flq)[1] >> ELSE << >>)
         \o OwnerQueue(Tail(flq), name)

\* lines 667 to 671 without the test of the first character
DirSkips_DotFilesKept(name) ==
  LET len == Len(name) IN
  /\ ~(len > 12 /\ strcmp(TailFrom(name, len - 12), STR_appdata_xml) = 0)
  /\ ~(len > 13 /\ strcmp(TailFrom(name, len - 13), STR_metainfo_xml) = 0)

\* lines 667 to 671: the entry is passed over
DirSkips(name) ==
  LET len == Len(name) IN
  \/ name[1] = "."
  \/ /\ ~(len > 12 /\ strcmp(TailFrom(name, len - 12), STR_appdata_xml) = 0)
     /\ ~(len > 13 /\ strcmp(TailFrom(name, len - 13), STR_metainfo_xml) = 0)

InitDir ==
  /\ family = "dir"
  /\ \E l \in Listings, u \in { {}, { STR_fo_appdata_xml } },
        fl \in { {}, { "APPDATA_SEARCH_UNINTERNALIZED_FILELIST" } },
        ex \in BOOLEAN :
       batch = [ NoBatch EXCEPT !.active = TRUE, !.exists = ex, !.flags = fl,
                                !.entries = l, !.unreadable = u,
                                !.files = PackageFiles ]
  /\ pd = InitPd({}, NULL, NULL)
  /\ solvables = << Package(<<"p">>), Package(<<"q">>) >>
  /\ deskentries = NULL
  /\ ret = 0
  /\ phase = "dirstart"
  /\ open = << >>
  /\ nstart = 0
  /\ last = Event("none", << >>)

\* lines 650 to 659: the file lists are searched, the directory is opened
DirOpen ==
  /\ batch.active /\ phase = "dirstart"
  /\ batch' = [batch EXCEPT !.flq =
                 IF "APPDATA_SEARCH_UNINTERNALIZED_FILELIST" \in batch.flags
                   THEN search_uninternalized_filelist(batch.files, 1)
                   ELSE << >>]
  /\ phase' = "dir"
  /\ last' = Event("opendir", << >>)
  /\ UNCHANGED << pd, solvables, deskentries, ret, open, nstart, family >>

\* one turn of the loop of line 662: the entry is passed over, or cannot be
\* opened, or repo_add_appdata_fn starts on it
DirEntry ==
  /\ batch.active /\ phase \in { "dir", "done" }
  /\ batch.exists /\ batch.pos <= Len(batch.entries)
  /\ LET name == batch.entries[batch.pos]
         b1 == [batch EXCEPT !.pos = @ + 1]
         b2 == [b1 EXCEPT !.attempted = Append(@, name)]
         oq == IF "APPDATA_SEARCH_UNINTERNALIZED_FILELIST" \in batch.flags
                 THEN OwnerQueue(batch.flq, name) ELSE << >>
     IN  /\ last' = Event("readdir", name)
         /\ IF DirSkips(name)
              THEN /\ batch' = b1
                   /\ phase' = "dir"
                   /\ UNCHANGED << pd, ret, open, nstart >>
            ELSE IF name \in batch.unreadable
              THEN /\ batch' = pool_error(b2, Some(name), "open")
                   /\ phase' = "dir"
                   /\ UNCHANGED << pd, ret, open, nstart >>
            ELSE /\ batch' = b2
                 /\ pd' = InitPd(batch.flags \cup DIR_FLAGS, Some(name),
                                 IF oq = << >> THEN NULL ELSE Some(oq))
                 /\ ret' = 0
                 /\ phase' = "parse"
                 /\ open' = << >>
                 /\ nstart' = 0
  /\ UNCHANGED << solvables, deskentries, family >>

\* lines 694 to 701: the directory is done, or was never opened
DirClose ==
  /\ batch.active /\ phase \in { "dir", "done" }
  /\ ~batch.exists \/ batch.pos > Len(batch.entries)
  /\ batch' = [batch EXCEPT !.ret = 0]
  /\ phase' = "returned"
  /\ last' = Event("closedir", << >>)
  /\ UNCHANGED << pd, solvables, deskentries, ret, open, nstart, family >>

NextDir ==
  \/ DirOpen \/ DirEntry \/ DirClose
  \/ StartElement \/ EndElement \/ CharacterData \/ XmlError \/ Finish
SpecDir == InitDir /\ [][NextDir]_vars


----------------------------------------------------------------------------
(* What the claims speak of, read off the document (the tokenizer's stack  *)
(* and the state table) and not off the parser's own depth counters.       *)

\* the last event was handed to one of the three callbacks
Parsed == last.ev \in { "start", "end", "text" }

\* the last event was the end tag of a known element whose path leads to st
Closed(st) == last.ev = "end" /\ PathTop(last.open) = st

\* the record of the application element open on the stack: the element
\* lies in no language-tagged subtree
RecordOpen(stack) ==
  \E i \in 1..Len(stack) :
    /\ stack[i].st = "STATE_APPLICATION"
    /\ \A k \in 1..i : ~stack[k].lang

\* the text of the element the last event closed, as characterData left it
ClosedText == SubSeq(last.pd.content, 1, last.pd.lcontent)

HasChar(str, c) == \E k \in 1..Len(str) : str[k] = c
OptHasChar(p, c) == p # NULL /\ HasChar(Val(p), c)
AnyHasChar(strs, c) == \E k \in 1..Len(strs) : HasChar(strs[k], c)
DepsHaveChar(deps, c) == \E k \in 1..Len(deps) : HasChar(deps[k].id, c)

\* some string of the record r holds the character c
RecordHasChar(r, c) ==
  \/ OptHasChar(r.name, c) \/ OptHasChar(r.summary, c)
  \/ OptHasChar(r.url, c) \/ OptHasChar(r.description, c)
  \/ AnyHasChar(r.license, c) \/ AnyHasChar(r.group, c)
  \/ AnyHasChar(r.extends, c) \/ AnyHasChar(r.keywords, c)
  \/ DepsHaveChar(r.requires, c) \/ DepsHaveChar(r.provides, c)

\* the scalar kinds, the field each one writes and what it puts in front
ScalarStates == { "STATE_NAME", "STATE_SUMMARY", "STATE_URL" }
FieldOf(st) ==
  CASE st = "STATE_NAME" -> "name"
    [] st = "STATE_SUMMARY" -> "summary"
    [] st = "STATE_URL" -> "url"
PrefixOf(st) == IF st = "STATE_NAME" THEN STR_application_colon ELSE << >>

\* what the parser keeps of a record besides the store
Kept(p) == << p.desktop_file, p.description, p.havesummary >>

----------------------------------------------------------------------------
(* C1 - the language filter: while an element that carries xml:lang is    *)
(* open (from its start tag to its end tag) no event writes a record, the  *)
(* desktop file name or the description, so its text (the text L) reaches  *)
(* no field; a sibling without xml:lang writes its own text to the field,  *)
(* whether it comes before or after the language-tagged one.               *)
C1_LanguageFilter ==
  /\ (Parsed /\ (LangOpen(last.open) \/ LangOpen(open)))
       => solvables = last.sv /\ Kept(pd) = Kept(last.pd)
  /\ \A i \in 1..Len(solvables) : ~RecordHasChar(solvables[i], LangText[1])
  /\ \A st \in ScalarStates :
       (Closed(st) /\ ~LangOpen(last.open))
         => solvables[last.pd.solvable][FieldOf(st)]
              = Some(PrefixOf(st) \o ClosedText)

\* a name with xml:lang has just closed after a name without xml:lang wrote
\* A: the record still has the name application:A
C1_Witness ==
  /\ Closed("STATE_NAME")
  /\ last.open[Len(last.open)].lang
  /\ last.pd.solvable # 0
  /\ solvables[last.pd.solvable].name = Some(STR_application_colon \o <<"A">>)


----------------------------------------------------------------------------
(* C2 - as claimed: of several sibling elements of one scalar kind (name,  *)
(* summary, url) only the first without xml:lang is kept; a later one,     *)
(* language-tagged or not, leaves the field of the record as it is.        *)
C2_FirstOccurrenceKept ==
  \A st \in ScalarStates :
    (Closed(st) /\ last.pd.solvable # 0
       /\ last.sv[last.pd.solvable][FieldOf(st)] # NULL)
      => solvables[last.pd.solvable][FieldOf(st)]
           = last.sv[last.pd.solvable][FieldOf(st)]

(* C2 - as amended: of several sibling elements of one scalar kind, each   *)
(* one with xml:lang leaves the field as it is and each one without        *)
(* xml:lang overwrites the field with its own text, so that the last       *)
(* occurrence without xml:lang is the one kept.                            *)
C2_LastUntaggedKept ==
  \A st \in ScalarStates :
    (Closed(st) /\ last.pd.solvable # 0
       /\ last.sv[last.pd.solvable][FieldOf(st)] # NULL)
      => solvables[last.pd.solvable][FieldOf(st)]
           = IF LangOpen(last.open)
               THEN last.sv[last.pd.solvable][FieldOf(st)]
               ELSE Some(PrefixOf(st) \o ClosedText)

\* a second name without xml:lang has closed: the name A has become B
C2_Witness ==
  /\ Closed("STATE_NAME")
  /\ ~LangOpen(last.open)
  /\ last.pd.solvable # 0
  /\ last.sv[last.pd.solvable].name = Some(STR_application_colon \o <<"A">>)
  /\ solvables[last.pd.solvable].name = Some(STR_application_colon \o <<"B">>)

----------------------------------------------------------------------------
(* C3 - an element with no entry in the state table is skipped with its    *)
(* whole subtree: from its start tag to its end tag no event changes the   *)
(* state, writes a record or appends character data to the content buffer. *)
C3_UnknownSubtreeSkipped ==
  (Parsed /\ (UnknownOpen(last.open) \/ UnknownOpen(open)))
    => /\ pd.state = last.pd.state
       /\ pd.statedepth = last.pd.statedepth
       /\ solvables = last.sv
       /\ Kept(pd) = Kept(last.pd)
       /\ pd.content = last.pd.content
       /\ pd.lcontent = last.pd.lcontent

----------------------------------------------------------------------------
(* C4 - a tokenizer error, wherever it strikes, ends the processing of    *)
(* events with the result -1; the record of the application or component   *)
(* element open at that moment is discarded, every other record stays as   *)
(* it is, and with no such element open no record is discarded.            *)
C4_ErrorDiscardsOpenRecord ==
  /\ last.ev = "error"
       => /\ ret = -1
          /\ phase = "done"
          /\ pd.solvable = 0
          /\ solvables = IF RecordOpen(last.open)
                           THEN SubSeq(last.sv, 1, Len(last.sv) - 1)
                           ELSE last.sv
  /\ RecordOpen(open) /\ phase = "parse" => pd.solvable = Len(solvables)
  /\ phase = "done" => ~ENABLED Next

\* the error struck inside the second component: its record is gone, the
\* record of the first, closed one is kept
C4_Witness ==
  /\ last.ev = "error"
  /\ RecordOpen(last.open)
  /\ Len(last.sv) = 2
  /\ Len(solvables) = 1
  /\ solvables[1] = last.sv[1]
  /\ solvables[1].name # NULL

----------------------------------------------------------------------------
(* C5 - the life of a record: the start tag of an application or          *)
(* component element at a known place outside every language-tagged       *)
(* subtree creates exactly one record, and no other event creates one;     *)
(* that record is the current one until the matching end tag, so that no   *)
(* child is finalized without a record; and the end tag leaves it with an  *)
(* architecture and a version (no-arch and the empty version when they     *)
(* were unset) and releases the handle.                                    *)
C5_RecordLifecycle ==
  /\ last.ev = "start"
       => IF PathTop(open) = "STATE_APPLICATION" /\ ~LangOpen(open)
            THEN /\ Len(solvables) = Len(last.sv) + 1
                 /\ pd.solvable = Len(solvables)
                 /\ SubSeq(solvables, 1, Len(last.sv)) = last.sv
            ELSE Len(solvables) = Len(last.sv)
  /\ last.ev \in { "text", "end" } => Len(solvables) = Len(last.sv)
  /\ (Parsed /\ RecordOpen(last.open) /\ RecordOpen(open))
       => pd.solvable # 0 /\ pd.solvable = last.pd.solvable
  /\ phase # "crashed"
  /\ (Closed("STATE_APPLICATION") /\ RecordOpen(last.open))
       => /\ pd.solvable = 0
          /\ last.pd.solvable # 0
          /\ LET old == last.sv[last.pd.solvable]
                 new == solvables[last.pd.solvable]
             IN  /\ new.arch = IF old.arch = NULL THEN ARCH_NOARCH ELSE old.arch
                 /\ new.evr = IF old.evr = NULL THEN ID_EMPTY ELSE old.evr
  /\ ~RecordOpen(open) /\ phase = "parse" => pd.solvable = 0

\* the second component of a document has just closed: two records, both
\* with architecture and version, no current record
C5_Witness ==
  /\ Closed("STATE_APPLICATION")
  /\ RecordOpen(last.open)
  /\ Len(solvables) = 2
  /\ solvables[2].arch = ARCH_NOARCH
  /\ solvables[2].evr = ID_EMPTY
  /\ solvables[2].name # NULL
  /\ pd.solvable = 0

----------------------------------------------------------------------------
(* C6 - the self-provide: once its top element has closed, a record with  *)
(* a name and an architecture other than src and nosrc has exactly one     *)
(* provides relation that is an equality, and it is name = version of the  *)
(* record; a record without a name has no such relation.                   *)

\* the records this call created (startElement gives each its category)
Created(i) == solvables[i].category # NULL
\* the provides of r that are equality relations
Equalities(r) == { k \in 1..Len(r.provides) : r.provides[k].flags = "REL_EQ" }

C6_SelfProvide ==
  \A i \in 1..Len(solvables) :
    (Created(i) /\ i # pd.solvable)
      => LET r == solvables[i] IN
         IF r.name # NULL /\ r.arch # ARCH_SRC /\ r.arch # ARCH_NOSRC
           THEN /\ Cardinality(Equalities(r)) = 1
                /\ \A k \in Equalities(r) :
                     /\ r.provides[k].id = Val(r.name)
                     /\ r.provides[k].evr = r.evr
           ELSE Equalities(r) = { }

\* a closed record named after its desktop file, with the provides of its
\* file name link and its self-provide
C6_Witness ==
  \E i \in 1..Len(solvables) :
    /\ Created(i) /\ i # pd.solvable
    /\ solvables[i].name = Some(STR_application_colon \o <<"f">>)
    /\ Len(solvables[i].provides) = 2
    /\ solvables[i].provides[2].flags = "REL_EQ"

----------------------------------------------------------------------------
(* C7 - the assembly of the description: a paragraph adds its stripped    *)
(* text and a blank line, a list item adds its stripped text, indented by  *)
(* four spaces, with its marker written over the first three characters,   *)
(* and one newline, the end of a list adds one newline more, and the       *)
(* description stored is all of that, in the order of the document,        *)
(* without its trailing newlines.                                          *)

\* text without its leading white space
RECURSIVE DropSpace(_)
DropSpace(t) ==
  IF t # << >> /\ IsSpace(Head(t)) THEN DropSpace(Tail(t)) ELSE t
\* the leading white space of text
RECURSIVE TakeSpace(_)
TakeSpace(t) ==
  IF t # << >> /\ IsSpace(Head(t))
    THEN << Head(t) >> \o TakeSpace(Tail(t)) ELSE << >>
\* text, which starts with none, with every run of white space inside it as
\* one newline (a run with a newline) or one space, and none at its end
RECURSIVE Collapsed(_)
Collapsed(t) ==
  IF t = << >> THEN << >>
  ELSE IF ~IsSpace(Head(t)) THEN << Head(t) >> \o Collapsed(Tail(t))
  ELSE IF DropSpace(t) = << >> THEN << >>
  ELSE << IF HasChar(TakeSpace(t), "\n") THEN "\n" ELSE " " >>
         \o Collapsed(DropSpace(t))
Stripped(t) == Collapsed(DropSpace(t))

\* every line of text behind n spaces; no text has no line
RECURSIVE Indented(_, _, _)
Indented(t, n, atLineStart) ==
  IF t = << >> THEN << >>
  ELSE IF Head(t) = "\n" THEN << "\n" >> \o Indented(Tail(t), n, TRUE)
  ELSE (IF atLineStart THEN Spaces(n) ELSE << >>)
         \o << Head(t) >> \o Indented(Tail(t), n, FALSE)

\* text with the marker over its first three characters
Marked(t, m) == [ k \in 1..Len(t) |-> IF k <= 3 THEN m[k] ELSE t[k] ]

BulletMarker == << " ", " ", "-" >>
NumberMarker(i) ==
  << IF i < 10 THEN " " ELSE Digit((i \div 10) % 10), Digit(i % 10), "." >>

\* text up to its last character that is no newline
Untrailed(t) ==
  LET ks == { k \in 1..Len(t) : t[k] # "\n" }
  IN  IF ks = { } THEN << >>
      ELSE SubSeq(t, 1, CHOOSE k \in ks : \A j \in ks : j <= k)

\* the description gathered before the last event
Gathered ==
  IF last.pd.description = NULL THEN << >> ELSE Val(last.pd.description)

C7_DescriptionAssembly ==
  /\ (last.ev = "start" /\ PathTop(open) = "STATE_DESCRIPTION"
        /\ ~LangOpen(open))
       => pd.description = NULL
  /\ (Closed("STATE_P") /\ ~LangOpen(last.open))
       => pd.description
            = Some(Gathered \o Stripped(ClosedText) \o << "\n", "\n" >>)
  /\ (Closed("STATE_UL_LI") /\ ~LangOpen(last.open))
       => pd.description
            = Some(Gathered
                     \o Marked(Indented(Stripped(ClosedText), 4, TRUE),
                               BulletMarker)
                     \o << "\n" >>)
  /\ (Closed("STATE_OL_LI") /\ ~LangOpen(last.open))
       => pd.description
            = Some(Gathered
                     \o Marked(Indented(Stripped(ClosedText), 4, TRUE),
                               NumberMarker(last.pd.licnt + 1))
                     \o << "\n" >>)
  /\ ((Closed("STATE_UL") \/ Closed("STATE_OL")) /\ ~LangOpen(last.open))
       => pd.description = Some(Gathered \o << "\n" >>)
  /\ (Closed("STATE_DESCRIPTION") /\ ~LangOpen(last.open)
        /\ last.pd.description # NULL)
       => solvables[last.pd.solvable].description = Some(Untrailed(Gathered))

----------------------------------------------------------------------------
(* C8 - the source of the requires of a record at the close of its         *)
(* application or component element.                                       *)

\* the last event closed the application element of a record
AppClosed == Closed("STATE_APPLICATION") /\ ~LangOpen(last.open)
\* the record just closed, before and after the close
Before == last.sv[last.pd.solvable]
After == solvables[last.pd.solvable]

Range(seq) == { seq[k] : k \in 1..Len(seq) }
NoRepeat(seq) == Cardinality(Range(seq)) = Len(seq)
\* the provides of r that are no equality relation
Capabilities(r) == { d \in Range(r.provides) : d.flags # "REL_EQ" }
\* the capability application-appdata(x) and its tail appdata(x)
AppdataLink(x) == StrDep(<<"a","p","p","l","i","c","a","t","i","o","n","-",
                           "a","p","p","d","a","t","a","(">> \o x \o <<")">>)
AppdataTail(x) == StrDep(<<"a","p","p","d","a","t","a","(">> \o x \o <<")">>)

\* the names of the owners handed to the call
OwnerNames == { Val(last.sv[o].name) : o \in Range(Val(last.pd.owners)) }

\* the close took nothing from the owners nor from the file name
NoLink == /\ After.requires = Before.requires
          /\ Capabilities(After) = Capabilities(Before)
\* the close took the requires from the owners
OwnerLink ==
  /\ Range(After.requires) = { StrDep(n) : n \in OwnerNames }
  /\ NoRepeat(After.requires)
  /\ Capabilities(After)
       = Capabilities(Before) \cup { AppdataLink(n) : n \in OwnerNames }
\* the close took the requires from the file name x: req is what is required
FileLink(x, req) ==
  /\ After.requires = << req >>
  /\ Capabilities(After) = Capabilities(Before) \cup { AppdataLink(x) }

\* the pkgname element adds a requires on its text and the link provides
PkgnameRule ==
  (Closed("STATE_PKGNAME") /\ ~LangOpen(last.open))
    => /\ StrDep(ClosedText) \in Range(After.requires)
       /\ AppdataLink(ClosedText) \in Range(After.provides)
       /\ Range(After.requires)
            = Range(Before.requires) \cup { StrDep(ClosedText) }

\* C8 as stated: pkgname elements, else the owners, else the file name
\* link, whose requires is on the file name itself
C8_RequiresOnFilename ==
  /\ PkgnameRule
  /\ AppClosed =>
       IF Before.requires # << >> THEN NoLink
       ELSE IF last.pd.owners # NULL THEN OwnerLink
       ELSE IF last.pd.filename # NULL
         THEN FileLink(Val(last.pd.filename), StrDep(Val(last.pd.filename)))
       ELSE \/ NoLink
            \/ /\ last.pd.desktop_file # NULL
               /\ Len(After.requires) = 1
               /\ FileLink(After.requires[1].id, After.requires[1])

\* C8 - the requires of a record come from exactly one source: the pkgname
\* elements of the record; else the owners handed to the call (a requires
\* per owner name, a provides application-appdata(owner) per owner); else
\* the file name link, which requires appdata(filename) and provides
\* application-appdata(filename).  The owners and the file name are looked
\* at only while the record requires nothing, and the file name never
\* after the owners gave a requires.
C8_DependencyPrecedence ==
  /\ PkgnameRule
  /\ AppClosed =>
       IF Before.requires # << >> THEN NoLink
       ELSE IF last.pd.owners # NULL THEN OwnerLink
       ELSE IF last.pd.filename # NULL
         THEN FileLink(Val(last.pd.filename),
                       AppdataTail(Val(last.pd.filename)))
       ELSE \/ NoLink
            \/ /\ last.pd.desktop_file # NULL
               /\ \E d \in Capabilities(After) \ Capabilities(Before) :
                    \E x \in { SubSeq(d.id, 21, Len(d.id) - 1) } :
                      FileLink(x, AppdataTail(x))

\* each of the three sources has given the requires of a closed record:
\* a pkgname element although owners and a file name were handed in, the
\* owners although a file name was handed in, and the file name
C8_WitnessPkgname ==
  /\ AppClosed /\ Before.requires # << >> /\ last.pd.owners # NULL
  /\ last.pd.filename # NULL /\ NoLink
C8_WitnessOwners ==
  /\ AppClosed /\ Before.requires = << >> /\ last.pd.owners # NULL
  /\ last.pd.filename # NULL /\ Len(After.requires) = 2
C8_Witness ==
  /\ AppClosed /\ Before.requires = << >> /\ last.pd.owners = NULL
  /\ last.pd.filename # NULL
  /\ After.requires = << AppdataTail(Val(last.pd.filename)) >>

----------------------------------------------------------------------------
(* C9, C10 - the file name of the link.                                    *)

\* the table of the suffixes and what replaces each
SuffixTable ==
  << << <<".","d","e","s","k","t","o","p">>,
        <<".","a","p","p","d","a","t","a",".","x","m","l">> >>,
     << <<".","t","t","f">>,
        <<".","m","e","t","a","i","n","f","o",".","x","m","l">> >>,
     << <<".","o","t","f">>,
        <<".","m","e","t","a","i","n","f","o",".","x","m","l">> >>,
     << <<".","x","m","l">>,
        <<".","m","e","t","a","i","n","f","o",".","x","m","l">> >>,
     << <<".","d","b">>,
        <<".","m","e","t","a","i","n","f","o",".","x","m","l">> >> >>
HasSuffix(id, suf) ==
  /\ Len(id) >= Len(suf)
  /\ SubSeq(id, Len(id) - Len(suf) + 1, Len(id)) = suf
\* the rows of the table whose suffix ends the id, and the first of them
Matching(id) == { k \in 1..Len(SuffixTable) : HasSuffix(id, SuffixTable[k][1]) }
FirstMatch(id) == CHOOSE k \in Matching(id) : \A j \in Matching(id) : k <= j
\* the id with its first matching suffix replaced
Replaced(id) ==
  LET row == SuffixTable[FirstMatch(id)]
  IN  SubSeq(id, 1, Len(id) - Len(row[1])) \o row[2]
\* the id is more than its first matching suffix
LongerThanSuffix(id) == Len(id) > Len(SuffixTable[FirstMatch(id)][1])

\* the close met a record that requires nothing, and no owners: the file
\* name is the source of the requires
FileStep == AppClosed /\ Before.requires = << >> /\ last.pd.owners = NULL
\* the desktop file id the close met, when no file name was handed in
InferFrom(id) ==
  /\ FileStep /\ last.pd.filename = NULL
  /\ last.pd.desktop_file = Some(id)

\* the desktop file id the parser holds at the close, if any
DesktopId ==
  IF last.pd.desktop_file = NULL THEN { } ELSE { Val(last.pd.desktop_file) }

\* C9 as stated: every id that ends in a suffix of the table gets the link,
\* and the requires is on the file name
C9_EverySuffixedId ==
  /\ (FileStep /\ last.pd.filename # NULL)
       => FileLink(Val(last.pd.filename), StrDep(Val(last.pd.filename)))
  /\ \A id \in DesktopId :
       (InferFrom(id) /\ Matching(id) # { })
         => FileLink(Replaced(id), StrDep(Replaced(id)))

\* C9 - a file name handed to the call is used as it is; without one, a
\* desktop file id that is longer than the first suffix of the table that
\* ends it gives the id with that suffix replaced (.desktop by .appdata.xml;
\* .ttf, .otf, .xml, .db by .metainfo.xml), and an id that is only a suffix
\* gives no file name and no link.  The record requires appdata(filename)
\* and provides application-appdata(filename).
C9_FilenameLink ==
  /\ (FileStep /\ last.pd.filename # NULL)
       => FileLink(Val(last.pd.filename), AppdataTail(Val(last.pd.filename)))
  /\ \A id \in DesktopId :
       (InferFrom(id) /\ Matching(id) # { })
         => IF LongerThanSuffix(id)
              THEN FileLink(Replaced(id), AppdataTail(Replaced(id)))
              ELSE NoLink

\* the close of a record whose id fo.ttf gave the link of fo.metainfo.xml
C9_Witness ==
  /\ InferFrom(<<"f","o",".","t","t","f">>)
  /\ After.requires
       = << AppdataTail(<<"f","o",".","m","e","t","a","i","n","f","o",
                          ".","x","m","l">>) >>
\* the close of a record whose id is the bare suffix .desktop
C9_WitnessBareSuffix ==
  /\ InferFrom(<<".","d","e","s","k","t","o","p">>)
  /\ After.requires = << >>

\* C10 as stated: an id that ends in no suffix of the table gets the link
\* of the id with .metainfo.xml behind it
C10_FallbackAppends ==
  \A id \in DesktopId :
    (InferFrom(id) /\ Matching(id) = { })
      => /\ After.requires # << >>
         /\ AppdataLink(id \o SuffixTable[2][2]) \in Capabilities(After)

\* C10 - without a file name handed to the call, a desktop file id that
\* ends in no suffix of the table gives no file name: the close adds no
\* requires and no provides of the link.
C10_NoLinkWithoutSuffix ==
  \A id \in DesktopId :
    (InferFrom(id) /\ Matching(id) = { }) => NoLink

\* the close of a record whose id is fo.bin
C10_Witness ==
  /\ InferFrom(<<"f","o",".","b","i","n">>)
  /\ After.requires = << >>
  /\ Capabilities(After) = { }

----------------------------------------------------------------------------
(* wsstrip and indent on their own: the text of a list item, as            *)
(* characterData left it in the buffer, goes through wsstrip and then      *)
(* through indent, as in the cases STATE_UL_LI and STATE_OL_LI.            *)

\* the characters of the longest short text
MaxText == 4

TextChars == { "a", " ", "\t", "\n" }
ShortTexts == UNION { [ 1..k -> TextChars ] : k \in 0..MaxText }
InitNormalize ==
  /\ family = "normalize"
  /\ \E t \in ShortTexts :
       pd = [InitPd({}, NULL, NULL) EXCEPT !.content = t \o << NUL >>,
                                          !.lcontent = Len(t)]
  /\ solvables = << >>
  /\ deskentries = NULL
  /\ ret = 0
  /\ phase = "raw"
  /\ batch = NoBatch
  /\ open = << >>
  /\ nstart = 0
  /\ last = Event("none", << >>)

ApplyWsstrip ==
  /\ phase = "raw"
  /\ pd' = wsstrip(pd)
  /\ phase' = "stripped"
  /\ last' = Event("wsstrip", << >>)
  /\ UNCHANGED << solvables, deskentries, ret, open, nstart, family, batch >>

ApplyIndent ==
  /\ phase = "stripped"
  /\ pd' = indent(pd, 4)
  /\ phase' = "indented"
  /\ last' = Event("indent", 4)
  /\ UNCHANGED << solvables, deskentries, ret, open, nstart, family, batch >>

NextNormalize == ApplyWsstrip \/ ApplyIndent
SpecNormalize == InitNormalize /\ [][NextNormalize]_vars

\* the text in the buffer before the last step, and after it
TextBefore == SubSeq(last.pd.content, 1, last.pd.lcontent)
TextAfter == SubSeq(pd.content, 1, pd.lcontent)
\* the characters of t that are no white space, in their order
RECURSIVE Solid(_)
Solid(t) ==
  IF t = << >> THEN << >>
  ELSE (IF IsSpace(Head(t)) THEN << >> ELSE << Head(t) >>) \o Solid(Tail(t))

\* C13 - wsstrip: the result has no white space at its start or end, no tab
\* and no two white space characters in a row; every run of white space
\* inside the text has become one newline when it held a newline and one
\* space when it did not; the other characters keep their order; the
\* buffer holds the result as a terminated string of the tracked length.
C13_Wsstrip ==
  phase = "stripped" =>
    /\ IsCString(pd.content, pd.lcontent)
    /\ TextAfter = Stripped(TextBefore)
    /\ Solid(TextAfter) = Solid(TextBefore)
    /\ ~HasChar(TextAfter, "\t")
    /\ TextAfter # << >>
         => ~IsSpace(TextAfter[1]) /\ ~IsSpace(TextAfter[Len(TextAfter)])
    /\ \A k \in 1..(Len(TextAfter) - 1) :
         ~(IsSpace(TextAfter[k]) /\ IsSpace(TextAfter[k + 1]))

\* wsstrip has made one newline of a run of a space and a newline between
\* two characters, and dropped the white space around them
C13_Witness ==
  /\ phase = "stripped"
  /\ TextBefore = << "a", " ", "\n", "a" >>
  /\ TextAfter = << "a", "\n", "a" >>

\* the lines of t: what lies between its newlines and its two ends
RECURSIVE Lines(_)
Lines(t) ==
  IF ~HasChar(t, "\n") THEN << t >>
  ELSE LET k == CHOOSE i \in 1..Len(t) :
                  t[i] = "\n" /\ \A j \in 1..(i - 1) : t[j] # "\n"
       IN  << SubSeq(t, 1, k - 1) >> \o Lines(SubSeq(t, k + 1, Len(t)))
\* how many lines of t hold a character
FullLines(t) == Cardinality({ i \in 1..Len(Lines(t)) : Lines(t)[i] # << >> })

\* the buffer holds a terminated string of the tracked length, which is
\* below the capacity
Terminated(p) == IsCString(p.content, p.lcontent) /\ p.lcontent < p.acontent

C14_WitnessEmpty ==
  phase = "indented" /\ TextBefore = << >> /\ TextAfter = << >>

----------------------------------------------------------------------------
(* C15 - the numbers of the items of an ordered list.                      *)

\* what the last event has put behind the description gathered before it,
\* and that without its last character, the newline of an item
Appended ==
  SubSeq(Val(pd.description), Len(Gathered) + 1, Len(Val(pd.description)))
ItemFragment == SubSeq(Appended, 1, Len(Appended) - 1)

\* the last event opened a list, the last event closed an item of an
\* ordered list
ListOpened ==
  /\ last.ev = "start" /\ ~LangOpen(open)
  /\ PathTop(open) \in { "STATE_OL", "STATE_UL" }
NumberedItemClosed == Closed("STATE_OL_LI") /\ ~LangOpen(last.open)

\* the item the last event closed is the i-th of its list and starts with
\* the marker of i
Numbered ==
  /\ pd.licnt = last.pd.licnt + 1
  /\ Len(ItemFragment) >= 3
  /\ SubSeq(ItemFragment, 1, 3) = NumberMarker(pd.licnt)

\* C15 - the counter starts again at the start of every ol and ul, and the
\* i-th item of an ordered list comes out behind a marker of three
\* characters: a space for i < 10 and the tens digit of i from 10 on, the
\* ones digit of i, and a dot.
C15_OrderedNumbering ==
  /\ ListOpened => pd.licnt = 0
  /\ NumberedItemClosed => Numbered

\* the same for the items that hold text after wsstrip
NumberingOfItemsWithText ==
  /\ ListOpened => pd.licnt = 0
  /\ (NumberedItemClosed /\ Stripped(ClosedText) # << >>) => Numbered
\* the eleventh item of a list, with text, has come out as 11. a
EleventhItemNumbered ==
  /\ NumberedItemClosed /\ pd.licnt = 11
  /\ ItemFragment = << "1", "1", ".", " ", "a" >>

----------------------------------------------------------------------------
(* C16 - when the close of the description writes the description of the   *)
(* record.                                                                 *)

DescriptionClosed == Closed("STATE_DESCRIPTION") /\ ~LangOpen(last.open)
\* the description of the record of the last event, before and after it
DescriptionBefore == last.sv[last.pd.handle].description
DescriptionAfter == solvables[last.pd.handle].description

\* C16 as stated: text that is empty once its trailing newlines are gone is
\* not written
C16_EmptyNotWritten ==
  DescriptionClosed =>
    DescriptionAfter
      = IF last.pd.description # NULL /\ Untrailed(Gathered) # << >>
          THEN Some(Untrailed(Gathered)) ELSE DescriptionBefore

\* C16 - the close of the description writes the gathered text without its
\* trailing newlines whenever a paragraph, a list item or a list was closed
\* inside the description, be the text empty or not; it writes nothing
\* only when the description held no such block.
C16_DescriptionWritten ==
  DescriptionClosed =>
    DescriptionAfter
      = IF last.pd.description # NULL
          THEN Some(Untrailed(Gathered)) ELSE DescriptionBefore

\* a description of empty blocks only has been written as the empty string
C16_Witness ==
  /\ DescriptionClosed
  /\ last.pd.description # NULL /\ Untrailed(Gathered) = << >>
  /\ DescriptionBefore = NULL
  /\ DescriptionAfter = Some(<< >>)
\* a description without a block has written nothing
C16_WitnessNoBlock ==
  /\ DescriptionClosed /\ last.pd.description = NULL
  /\ DescriptionAfter = NULL

----------------------------------------------------------------------------
(* C17 - what the close of summary, url, product_license, project_group,   *)
(* extends and keyword writes.                                             *)

ValueStates == { "STATE_SUMMARY", "STATE_URL", "STATE_LICENCE",
                 "STATE_GROUP", "STATE_EXTENDS", "STATE_KEYWORD" }
ValueField(st) ==
  CASE st = "STATE_SUMMARY" -> "summary"
    [] st = "STATE_URL" -> "url"
    [] st = "STATE_LICENCE" -> "license"
    [] st = "STATE_GROUP" -> "group"
    [] st = "STATE_EXTENDS" -> "extends"
    [] st = "STATE_KEYWORD" -> "keywords"
\* the last event closed an element of the kind st outside a skipped subtree
ValueClosed(st) == Closed(st) /\ ~LangOpen(last.open)
\* the close has written text: as the one value of a scalar field, as one
\* more value of an array field
ValueWritten(st, text) ==
  LET before == last.sv[last.pd.handle][ValueField(st)]
      after == solvables[last.pd.handle][ValueField(st)]
  IN  IF st \in { "STATE_SUMMARY", "STATE_URL" }
        THEN after = Some(text)
        ELSE after = Append(before, text)

\* C17 as stated: the value written is the text after wsstrip
C17_StrippedValue ==
  \A st \in ValueStates :
    ValueClosed(st) => ValueWritten(st, Stripped(ClosedText))

\* C17 - the close of a summary, url, product_license, project_group,
\* extends or keyword element outside a skipped subtree writes the
\* character data of the element as it was captured, white space and all.
C17_RawValue ==
  \A st \in ValueStates : ValueClosed(st) => ValueWritten(st, ClosedText)

\* a summary that starts with a space has been written with its space
C17_Witness ==
  /\ ValueClosed("STATE_SUMMARY")
  /\ ClosedText = << " ", "a" >>
  /\ solvables[last.pd.handle].summary = Some(<< " ", "a" >>)
\* a keyword that ends with a space has been written with its space
C17_WitnessKeyword ==
  /\ ValueClosed("STATE_KEYWORD")
  /\ solvables[last.pd.handle].keywords = << << "a", " " >> >>

----------------------------------------------------------------------------
(* C18 - depth, statedepth and skip_depth against the elements that are    *)
(* open.                                                                   *)

\* the depth of the outermost open element the table knows that carries
\* xml:lang
LangDepth(stack) ==
  CHOOSE i \in 1..Len(stack) :
    stack[i].lang /\ \A k \in 1..(i - 1) : ~stack[k].lang

\* C18 - in every state of a well-nested sequence of events
\* 0 <= statedepth <= depth; a skip is on exactly while an element the
\* table knows that carries xml:lang is open; skip_depth is then the depth
\* of the outermost such element, 1 <= skip_depth <= statedepth, and no
\* text is captured.
C18_DepthAndSkip ==
  phase = "parse" =>
    /\ 0 <= pd.statedepth /\ pd.statedepth <= pd.depth
    /\ pd.depth = Len(open)
    /\ IF LangOpen(open)
         THEN /\ pd.skip_depth = LangDepth(open)
              /\ 1 <= pd.skip_depth /\ pd.skip_depth <= pd.statedepth
              /\ pd.docontent = 0
         ELSE pd.skip_depth = 0

\* the end tag of the element that started a skip has lifted it: the
\* element carried xml:lang at depth 2
C18_Witness ==
  /\ last.ev = "end" /\ phase = "parse"
  /\ last.pd.skip_depth = 2 /\ Len(last.open) = 2
  /\ pd.skip_depth = 0 /\ pd.statedepth = 1
\* a skip is on below its start: a known and an unknown element are open
\* inside the element that carries xml:lang
C18_WitnessInside ==
  /\ phase = "parse" /\ pd.skip_depth = 1
  /\ pd.statedepth = 2 /\ pd.depth = 3

----------------------------------------------------------------------------
(* C19 - the parser against a machine that keeps a stack of states.        *)

\* what the parser keeps in place of a stack
Position(p) == << p.state, p.depth, p.statedepth, p.skip_depth >>

\* the machine with the stack: its state is the state of the innermost open
\* element the table knows, its statedepth the depth of that element
KnownDepth(stack) ==
  IF \A i \in 1..Len(stack) : stack[i].st = "unknown" THEN 0
  ELSE CHOOSE i \in 1..Len(stack) :
         /\ stack[i].st # "unknown"
         /\ \A k \in (i + 1)..Len(stack) : stack[k].st = "unknown"
StackPosition(stack) ==
  << IF KnownDepth(stack) = 0 THEN "STATE_START"
     ELSE stack[KnownDepth(stack)].st,
     Len(stack),
     KnownDepth(stack),
     IF LangOpen(stack) THEN LangDepth(stack) ELSE 0 >>

\* C19 - the parser, which restores its state at an end tag through the
\* parent table, goes with the machine that keeps a stack of states: after
\* the end tag of an element, state, depth, statedepth and skip_depth are
\* what they were before its start tag, and after a whole document the
\* state is STATE_START, depth and statedepth are 0, no skip is on and no
\* record is current.
C19_ImplicitStack ==
  /\ phase = "parse" => Position(pd) = StackPosition(open)
  /\ (phase = "parse" /\ last.ev = "end")
       => Position(pd) = last.open[Len(last.open)].saved
  /\ last.ev = "finish"
       => /\ Position(pd) = << "STATE_START", 0, 0, 0 >>
          /\ pd.solvable = 0

\* the end tag of a name element at depth 2 has brought the parser back to
\* the application state it had left
C19_Witness ==
  /\ phase = "parse" /\ last.ev = "end"
  /\ last.pd.state = "STATE_NAME"
  /\ Position(pd) = << "STATE_APPLICATION", 1, 1, 0 >>
\* a document with a record has been read to its end
C19_WitnessDocument ==
  /\ last.ev = "finish" /\ Len(solvables) = 1
  /\ Position(pd) = << "STATE_START", 0, 0, 0 >>

----------------------------------------------------------------------------
(* C20 - the buffer and the fragment at the close of a list item.          *)

ItemClosed ==
  (Closed("STATE_UL_LI") \/ Closed("STATE_OL_LI")) /\ ~LangOpen(last.open)
\* the marker of the item the last event closed
ItemMarker ==
  IF Closed("STATE_UL_LI") THEN BulletMarker ELSE NumberMarker(pd.licnt)
\* the text of the item after wsstrip, behind four spaces line by line
ItemBody == Indented(Stripped(ClosedText), 4, TRUE)

\* C20 - after the close of a list item, be its text empty after wsstrip or
\* not, be its number below 10 or not, the buffer holds a terminated string
\* of the tracked length, and what was put behind the description is made
\* of the marker and the stripped text of the item alone (the marker alone,
\* or nothing, for an item without text): no byte that an earlier element
\* left in the buffer, no byte never written.
C20_ItemBufferIntact ==
  ItemClosed =>
    /\ IsCString(pd.content, pd.lcontent)
    /\ \/ ItemFragment = Marked(ItemBody, ItemMarker)
       \/ ItemBody = << >> /\ ItemFragment = ItemMarker

\* the same for the items that hold text after wsstrip
ItemWithTextIntact ==
  (ItemClosed /\ Stripped(ClosedText) # << >>)
    => /\ IsCString(pd.content, pd.lcontent)
       /\ ItemFragment = Marked(ItemBody, ItemMarker)
\* an empty item numbered ten or more has come out with the text of the
\* item before it
StaleItemText ==
  /\ ItemClosed /\ ClosedText = << >> /\ pd.licnt >= 10
  /\ HasChar(ItemFragment, "a")
\* an empty item numbered ten or more has come out with a byte never written
GarbageItemText ==
  /\ ItemClosed /\ ClosedText = << >> /\ pd.licnt >= 10
  /\ HasChar(ItemFragment, GARBAGE)
----------------------------------------------------------------------------
(* The directory.                                                          *)

\* the name is one of a document: no dot file, and one of the two suffixes
Wanted(name) ==
  /\ name[1] # "."
  /\ HasSuffix(name, STR_appdata_xml) \/ HasSuffix(name, STR_metainfo_xml)
\* the entries readdir has handed out so far
EntriesRead == SubSeq(batch.entries, 1, batch.pos - 1)
OpenErrors == { e \in Range(batch.errors) : e.kind = "open" }
ParseErrors == { e \in Range(batch.errors) : e.kind = "parse" }

\* C11: repo_add_appdata_dir tries the entries of the directory that are no
\* dot files and end in .appdata.xml or .metainfo.xml, these only and in
\* the order of readdir; an entry that cannot be opened and a document that
\* does not parse leave an error with the pool and the loop goes on to the
\* end of the directory; the call returns 0 whatever happened to the files.
C11_DirectoryIngestion ==
  batch.active =>
    /\ batch.attempted = SelectSeq(EntriesRead, Wanted)
    /\ \A i \in 1..Len(EntriesRead) :
         (Wanted(EntriesRead[i]) /\ EntriesRead[i] \in batch.unreadable)
           => [ file |-> Some(EntriesRead[i]), kind |-> "open" ] \in OpenErrors
    /\ (last.ev = "error")
         => batch.errors[Len(batch.errors)]
              = [ file |-> last.pd.filename, kind |-> "parse" ]
    /\ (phase = "returned")
         => /\ batch.ret = 0
            /\ batch.exists => batch.pos = Len(batch.entries) + 1

\* the first entry could not be opened, the second did not parse, and the
\* call has returned
C11_Witness ==
  /\ batch.active /\ batch.exists /\ phase = "returned"
  /\ Len(batch.attempted) = 2
  /\ Len(batch.errors) = 2
  /\ batch.errors[1].kind = "open" /\ batch.errors[2].kind = "parse"
\* a document did not parse and the next one is being read
C11_WitnessAfterParseError ==
  /\ batch.active /\ phase = "parse" /\ ParseErrors # {}
\* a dot file with a suffix and a file of another kind were passed over
C11_WitnessPassedOver ==
  /\ batch.active /\ phase = "returned"
  /\ batch.entries = << STR_dot_appdata_xml, STR_releasenotes_txt >>
  /\ batch.attempted = << >>
\* the directory could not be opened
C11_WitnessNoDirectory ==
  /\ batch.active /\ phase = "returned" /\ ~batch.exists
  /\ batch.entries # << >>

\* the pairs in the queue of search_uninternalized_filelist
Queued == { << batch.flq[i][1], batch.flq[i][2] >> : i \in 1..Len(batch.flq) }
\* the records whose file list has the name
Owning(name) ==
  { p \in 1..Len(batch.files) : name \in Range(batch.files[p]) }
\* repo_add_appdata_fn has just been called for an entry of the directory
Ingesting == batch.active /\ last.ev = "readdir" /\ phase = "parse"
Searching ==
  /\ batch.active /\ phase # "dirstart"
  /\ "APPDATA_SEARCH_UNINTERNALIZED_FILELIST" \in batch.flags
OwnersPassed == IF pd.owners = NULL THEN {} ELSE Range(Val(pd.owners))

\* C12: with APPDATA_SEARCH_UNINTERNALIZED_FILELIST the scan of the file
\* lists queues the entries under the directory whose name ends in
\* .appdata.xml or .metainfo.xml, these only, and every document then gets
\* as owners the records whose file list has its name, whatever its length.
C12_OwnerLookup ==
  Searching =>
    /\ Queued = { q \in (1..Len(batch.files)) \X EntryNames :
                    /\ q[2] \in Range(batch.files[q[1]])
                    /\ \/ HasSuffix(q[2], STR_appdata_xml)
                       \/ HasSuffix(q[2], STR_metainfo_xml) }
    /\ Ingesting => OwnersPassed = Owning(Val(pd.filename))

\* what the code does: a name of 14 characters or more gets its owners
C12_LongNamesGetOwners ==
  (Searching /\ Ingesting /\ Len(Val(pd.filename)) > 13)
    => OwnersPassed = Owning(Val(pd.filename))
\* a document of a name of 13 characters that a package owns gets no owners
C12_ShortNameNoOwners ==
  /\ Searching /\ Ingesting
  /\ Val(pd.filename) = STR_f_appdata_xml
  /\ Owning(Val(pd.filename)) = { 1 }
  /\ pd.owners = NULL
\* a document owned by both packages gets both
C12_LongNameBothOwners ==
  /\ Searching /\ Ingesting
  /\ Val(pd.filename) = STR_fo_appdata_xml
  /\ OwnersPassed = { 1, 2 }

=============================================================================
